---------------------------- MODULE Spec2Model ----------------------------
(***************************************************************************)
(* A model of the flood dashboard's batch pipeline:                        *)
(*   process_gauge_data.py  (gauge_data.csv + historical_p90.csv           *)
(*                           -> gauge_data_processed.csv)                  *)
(*   compare_p90_roc.py     (north_va.csv + south_va.csv + historical      *)
(*                           -> high_flow_with_roc.csv)                    *)
(*   update_pipeline.py     (runs the fetch scripts and                    *)
(*                           process_gauge_data.py in turn)                *)
(*   app.py                 (the dashboard over gauge_data_processed.csv)  *)
(*                                                                         *)
(* A DataFrame is a sequence of records (one record per row, one field per *)
(* column).  A float64 cell is an exact fraction [n, d] with d > 0, or one *)
(* of the three IEEE specials: NaN = 0/0, +inf = 1/0, -inf = -1/0.         *)
(* Rounding is not modelled; NaN, the infinities and division by zero are. *)
(* A timestamp is a count of 5-minute ticks since 1 January 00:00 UTC.     *)
(***************************************************************************)
EXTENDS Integers, Sequences, FiniteSets, TLC

VARIABLES
    gauge,      \* data/gauge_data.csv             [exists, rows]
    hist,       \* data/historical_p90.csv         [exists, rows]
    processed,  \* data/gauge_data_processed.csv   [exists, rows]
    north,      \* data/north_va.csv               [exists, rows]
    south,      \* data/south_va.csv               [exists, rows]
    hfroc,      \* data/high_flow_with_roc.csv     [exists, rows]
    last,       \* the last program run and how it ended
    args,       \* arguments of a direct call of one pipeline function
    ret,        \* what that call returned
    quicksort,  \* what the installed numpy's quicksort does with equal keys
    app,        \* the dashboard session: figure, clicked point, page shown
    pipe        \* update_pipeline.main: where it is, the scripts it started

vars == <<gauge, hist, processed, north, south, hfroc, last, args, ret,
          quicksort, app, pipe>>

---------------------------------------------------------------------------
(* float64 cells                                                           *)

NaN    == [n |-> 0, d |-> 0]
PosInf == [n |-> 1, d |-> 0]
NegInf == [n |-> -1, d |-> 0]

Num(k) == [n |-> k, d |-> 1]

isna(x) == x = NaN

IsInf(x) == x = PosInf \/ x = NegInf

IsReal(x) == x.d # 0

Abs(k) == IF k < 0 THEN -k ELSE k

Sign(k) == IF k > 0 THEN 1 ELSE IF k < 0 THEN -1 ELSE 0

RECURSIVE GCD(_, _)
GCD(a, b) == IF b = 0 THEN a ELSE GCD(b, a % b)

\* the fraction num/den in lowest terms with a positive denominator;
\* den = 0 gives the IEEE result of dividing by zero (nan, inf or -inf)
Frac(num, den) ==
    IF den = 0 THEN [n |-> Sign(num), d |-> 0]
    ELSE LET g == GCD(Abs(num), Abs(den))
         IN  [n |-> Sign(den) * (num \div g), d |-> Abs(den) \div g]

\* a - b
FSub(a, b) ==
    IF isna(a) \/ isna(b) THEN NaN
    ELSE IF IsInf(a) /\ IsInf(b) THEN (IF a = b THEN NaN ELSE a)
    ELSE IF IsInf(a) THEN a
    ELSE IF IsInf(b) THEN [n |-> -b.n, d |-> 0]
    ELSE Frac(a.n * b.d - b.n * a.d, a.d * b.d)

\* a / b
FDiv(a, b) ==
    IF isna(a) \/ isna(b) THEN NaN
    ELSE IF IsInf(a) /\ IsInf(b) THEN NaN
    ELSE IF IsInf(a) THEN [n |-> a.n * (IF b.n < 0 THEN -1 ELSE 1), d |-> 0]
    ELSE IF IsInf(b) THEN Num(0)
    ELSE Frac(a.n * b.d, a.d * b.n)

\* a * b
FMul(a, b) ==
    IF isna(a) \/ isna(b) THEN NaN
    ELSE IF IsInf(a) \/ IsInf(b) THEN [n |-> Sign(a.n) * Sign(b.n), d |-> 0]
    ELSE Frac(a.n * b.n, a.d * b.d)

\* comparisons: every comparison with NaN is False
FLt(a, b) ==
    /\ ~isna(a) /\ ~isna(b)
    /\ a # b
    /\ \/ a = NegInf
       \/ b = PosInf
       \/ IsReal(a) /\ IsReal(b) /\ a.n * b.d < b.n * a.d

FLe(a, b) == ~isna(a) /\ ~isna(b) /\ (a = b \/ FLt(a, b))

FGe(a, b) == FLe(b, a)

FGt(a, b) == FLt(b, a)

---------------------------------------------------------------------------
(* cells of the other columns                                              *)

\* an empty site_no cell of the CSV (read as NaN)
NA == ""

\* an empty or coerced timestamp (pandas NaT); it sorts after every instant
NaT == -1

\* a timestamp cell whose text is no date: pd.to_datetime cannot parse it
BadTs == -2

\* day_of_year of a NaT timestamp (NaN in the column)
NoDay == 0

\* the "missing" sentinel of the raw feed
SENTINEL == -9999

WINDOW_1h == 12
WINDOW_3h == 36
WINDOW_6h == 72

\* Series.dt.dayofyear of an instant, 288 five-minute ticks to the day
dayofyear(t) == (t \div (24 * WINDOW_1h)) + 1

\* the order of the site_no strings of the model ("A" < "B")
SiteRank(s) == CASE s = "A" -> 1 [] s = "B" -> 2 [] OTHER -> 3

\* NaN keys and NaT sort last (na_position = "last")
SiteLess(a, b) == a # NA /\ (b = NA \/ SiteRank(a) < SiteRank(b))

TsLess(a, b) == a # NaT /\ (b = NaT \/ a < b)

---------------------------------------------------------------------------
(* process_gauge_data.py                                                   *)

\* pd.to_datetime(df["timestamp_utc"], utc=True) with errors="raise" (the
\* default) raises on the first cell it cannot parse
to_datetime_raises(df) == \E i \in 1..Len(df) : df[i].timestamp_utc = BadTs

\* pd.to_datetime(..., errors="coerce"): an unparseable cell becomes NaT
to_datetime_coerce(t) == IF t = BadTs THEN NaT ELSE t

LexLess(r1, r2) ==
    \/ SiteLess(r1.site_no, r2.site_no)
    \/ r1.site_no = r2.site_no /\ TsLess(r1.timestamp_utc, r2.timestamp_utc)

\* the table with its rows in the order `place` gives: row i of df goes to
\* row place[i]
Reordered(df, place) ==
    LET at == [k \in 1..Len(df) |-> CHOOSE i \in 1..Len(df) : place[i] = k]
    IN  [k \in 1..Len(df) |-> df[at[k]]] \o <<>>

\* df.sort_values(["site_no", "timestamp_utc"]): a stable sort on both keys
\* (a row goes after the rows that sort before it and after the equal rows
\* that precede it in df)
sort_values_site_ts(df) ==
    Reordered(df,
        [i \in 1..Len(df) |->
            1 + Cardinality({j \in 1..Len(df) :
                    \/ LexLess(df[j], df[i])
                    \/ ~LexLess(df[i], df[j]) /\ j < i})] \o <<>>)

\* shift with the window counted one row short
shift_one_short(df, k, window) ==
    LET g == SelectSeq(SubSeq(df, 1, k), LAMBDA r : r.site_no = df[k].site_no)
        i == Len(g)
    IN  IF i - window >= 0 THEN g[i - window + 1].flow_cfs ELSE NaN

\* x.shift(window) at row k of its site_no group: the flow of the row
\* `window` places earlier in the group, NaN when there is none
shift(df, k, window) ==
    LET g == SelectSeq(SubSeq(df, 1, k), LAMBDA r : r.site_no = df[k].site_no)
        i == Len(g)
    IN  IF i - window >= 1 THEN g[i - window].flow_cfs ELSE NaN

\* (x - x.shift(window)) / x.shift(window) * 100
pct_change_expr(x, sh) == FMul(FDiv(FSub(x, sh), sh), Num(100))

\* groupby("site_no")["flow_cfs"].transform(...): rows whose site_no is NaN
\* belong to no group and get NaN
pct_change(df, k, window) ==
    IF df[k].site_no = NA THEN NaN
    ELSE pct_change_expr(df[k].flow_cfs, shift(df, k, window))

\* lines 15-26, for a table every timestamp of which parses
compute_rate_of_change(df0) ==
    LET df == sort_values_site_ts(df0)
    IN  [k \in 1..Len(df) |->
            df[k] @@ [pct_change_1h |-> pct_change(df, k, WINDOW_1h),
                      pct_change_3h |-> pct_change(df, k, WINDOW_3h),
                      pct_change_6h |-> pct_change(df, k, WINDOW_6h)]]

RowAccepted(r) ==
    r.day_of_year # NoDay /\ ~isna(r.flow_cfs) /\ r.site_no # NA

\* lines 29-32
prepare_current_data(df) ==
    LET withDay == [k \in 1..Len(df) |->
            LET t == to_datetime_coerce(df[k].timestamp_utc)
            IN  [df[k] EXCEPT !.timestamp_utc = t] @@
                [day_of_year |-> IF t = NaT THEN NoDay ELSE dayofyear(t)]]
    IN  SelectSeq(withDay, RowAccepted)

\* the rows of df_hist that match left row r, in df_hist's order
hist_matches(r, df_hist) ==
    SelectSeq(df_hist, LAMBDA h : h.site_no = r.site_no
                                  /\ h.day_of_year = r.day_of_year)

\* pd.merge with how="inner": the left rows without a match are dropped
RECURSIVE merge_inner(_, _)
merge_inner(df_cur, df_hist) ==
    IF df_cur = <<>> THEN <<>>
    ELSE LET r == df_cur[1]
             m == hist_matches(r, df_hist)
         IN  [j \in 1..Len(m) |-> r @@ [p90_flow_cfs |-> m[j].p90_flow_cfs]]
             \o merge_inner(Tail(df_cur), df_hist)

\* pd.merge(df_cur, df_hist, on=["site_no", "day_of_year"], how="left"):
\* the left rows in their order, one output row per match, one row with a
\* NaN p90_flow_cfs when nothing matches
RECURSIVE merge_left(_, _)
merge_left(df_cur, df_hist) ==
    IF df_cur = <<>> THEN <<>>
    ELSE LET r == df_cur[1]
             m == hist_matches(r, df_hist)
             rows == IF m = <<>>
                     THEN << r @@ [p90_flow_cfs |-> NaN] >>
                     ELSE [j \in 1..Len(m) |->
                               r @@ [p90_flow_cfs |-> m[j].p90_flow_cfs]]
         IN  rows \o merge_left(Tail(df_cur), df_hist)

\* line 53: non-positive or missing p90 becomes NaN
clean_p90(p) == IF FLe(p, Num(0)) \/ isna(p) THEN NaN ELSE p

\* lines 56-59
ratio_of(flow, p90) == IF isna(p90) THEN NaN ELSE FDiv(flow, p90)

\* line 62
high_flow_of(ratio) == FGe(ratio, Num(1))

PERCENTILE_CAP == 500

\* percentile_of without the cap of line 73
percentile_uncapped(ratio) ==
    LET p0 == FMul(ratio, Num(100))
        p1 == IF IsInf(p0) THEN NaN ELSE p0
        p2 == IF FLt(p1, Num(0)) THEN Num(0) ELSE p1
    IN  IF isna(p2) THEN Num(0) ELSE p2

\* lines 65-74
percentile_of(ratio) ==
    LET p0 == FMul(ratio, Num(100))
        p1 == IF IsInf(p0) THEN NaN ELSE p0
        p2 == IF FLt(p1, Num(0)) THEN Num(0) ELSE p1
        p3 == IF FGt(p2, Num(PERCENTILE_CAP)) THEN Num(PERCENTILE_CAP) ELSE p2
    IN  IF isna(p3) THEN Num(0) ELSE p3

\* lines 36-76
compare_to_historical(df_cur, df_hist) ==
    LET merged == merge_left(df_cur, df_hist)
    IN  [k \in 1..Len(merged) |->
            LET p90   == clean_p90(merged[k].p90_flow_cfs)
                ratio == ratio_of(merged[k].flow_cfs, p90)
            IN  [merged[k] EXCEPT !.p90_flow_cfs = p90] @@
                [ratio      |-> ratio,
                 high_flow  |-> high_flow_of(ratio),
                 percentile |-> percentile_of(ratio)]]

\* every arrangement of the rows of s
RECURSIVE Arrangements(_)
Arrangements(s) ==
    IF s = <<>> THEN {<<>>}
    ELSE UNION {{<<s[i]>> \o rest :
                    rest \in Arrangements(SubSeq(s, 1, i - 1)
                                          \o SubSeq(s, i + 1, Len(s)))} :
                i \in 1..Len(s)}

\* the length of the leading run of rows of s that share s[1]'s timestamp
TieRun(s) ==
    Cardinality({i \in 1..Len(s) :
        \A j \in 1..i : s[j].timestamp_utc = s[1].timestamp_utc})

RECURSIVE TieOrders(_)
TieOrders(s) ==
    IF s = <<>> THEN {<<>>}
    ELSE LET m == TieRun(s)
         IN  {a \o rest : a \in Arrangements(SubSeq(s, 1, m)),
                          rest \in TieOrders(SubSeq(s, m + 1, Len(s)))}

\* the rows in timestamp order, rows of equal timestamp in df's order
stable_sort_ts(df) ==
    Reordered(df,
        [i \in 1..Len(df) |->
            1 + Cardinality({j \in 1..Len(df) :
                    \/ TsLess(df[j].timestamp_utc, df[i].timestamp_utc)
                    \/ /\ ~TsLess(df[i].timestamp_utc, df[j].timestamp_utc)
                       /\ j < i})] \o <<>>)

\* df.sort_values("timestamp_utc"): one key, kind="quicksort", which is not
\* a stable sort: the rows come out in timestamp order, rows of equal
\* timestamp in an order the numpy build decides.  The set of the orders it
\* may return.
sort_values_ts(df) == TieOrders(stable_sort_ts(df))

\* the rows in timestamp order, rows of equal timestamp in the reverse of
\* df's order
reversed_sort_ts(df) ==
    Reordered(df,
        [i \in 1..Len(df) |->
            1 + Cardinality({j \in 1..Len(df) :
                    \/ TsLess(df[j].timestamp_utc, df[i].timestamp_utc)
                    \/ /\ ~TsLess(df[i].timestamp_utc, df[j].timestamp_utc)
                       /\ j > i})] \o <<>>)

\* numpy's quicksort is an introsort without randomisation: on one
\* installation the order it gives to equal keys is a function of the table,
\* and it differs between installations and table sizes.  Two of the
\* functions an installation may compute.
TiePolicies == {"keeps", "reverses"}

\* df.sort_values("timestamp_utc") on an installation with tie policy q
sort_values_ts_by(q, df) ==
    IF q = "keeps" THEN stable_sort_ts(df) ELSE reversed_sort_ts(df)

\* drop_duplicates with keep="first"
drop_duplicates_first(df) ==
    LET keep == SelectSeq([k \in 1..Len(df) |-> k],
                    LAMBDA k : \A j \in 1..(k - 1) :
                                   df[j].site_no # df[k].site_no)
    IN  [i \in 1..Len(keep) |-> df[keep[i]]]

\* drop_duplicates on ["site_no", "timestamp_utc"] instead of "site_no"
drop_duplicates_site_ts(df) ==
    LET keep == SelectSeq([k \in 1..Len(df) |-> k],
                    LAMBDA k : \A j \in (k + 1)..Len(df) :
                                   \/ df[j].site_no # df[k].site_no
                                   \/ df[j].timestamp_utc # df[k].timestamp_utc)
    IN  [i \in 1..Len(keep) |-> df[keep[i]]]

\* .drop_duplicates("site_no", keep="last")
drop_duplicates_last(df) ==
    LET keep == SelectSeq([k \in 1..Len(df) |-> k],
                    LAMBDA k : \A j \in (k + 1)..Len(df) :
                                   df[j].site_no # df[k].site_no)
    IN  [i \in 1..Len(keep) |-> df[keep[i]]]

\* lines 87-95 of main on an installation with tie policy q
latest_table(q, df_raw, df_hist) ==
    drop_duplicates_last(sort_values_ts_by(q,
        compare_to_historical(
            prepare_current_data(compute_rate_of_change(df_raw)), df_hist)))

\* lines 87-95 of main: the tables main may save on some installation, one
\* per order the unstable sort may return
latest_tables(df_raw, df_hist) ==
    LET df == compare_to_historical(
                  prepare_current_data(compute_rate_of_change(df_raw)), df_hist)
    IN  {drop_duplicates_last(srt) : srt \in sort_values_ts(df)}

---------------------------------------------------------------------------
(* compare_p90_roc.py                                                      *)

\* lines 30-42: as in process_gauge_data.py, the timestamps parsed without
\* utc=True
cpr_compute_rate_of_change(df0) ==
    LET df == sort_values_site_ts(df0)
    IN  [k \in 1..Len(df) |->
            df[k] @@ [pct_change_1h |-> pct_change(df, k, WINDOW_1h),
                      pct_change_3h |-> pct_change(df, k, WINDOW_3h),
                      pct_change_6h |-> pct_change(df, k, WINDOW_6h)]]

\* lines 64-67
cpr_prepare_current_data(df) ==
    LET withDay == [k \in 1..Len(df) |->
            LET t == to_datetime_coerce(df[k].timestamp_utc)
            IN  [df[k] EXCEPT !.timestamp_utc = t] @@
                [day_of_year |-> IF t = NaT THEN NoDay ELSE dayofyear(t)]]
    IN  SelectSeq(withDay, RowAccepted)

\* lines 92-93
cpr_ratio_of(flow, p90) ==
    IF isna(p90) \/ p90 = Num(0) THEN NaN ELSE FDiv(flow, p90)

\* lines 70-106; the columns kept are those of the list at lines 97-103
cpr_compare_to_historical(df_current, df_hist) ==
    LET merged == merge_left(df_current, df_hist)
    IN  [k \in 1..Len(merged) |->
            LET r     == merged[k]
                ratio == cpr_ratio_of(r.flow_cfs, r.p90_flow_cfs)
            IN  [site_no       |-> r.site_no,
                 timestamp_utc |-> r.timestamp_utc,
                 region        |-> r.region,
                 flow_cfs      |-> r.flow_cfs,
                 p90_flow_cfs  |-> r.p90_flow_cfs,
                 ratio         |-> ratio,
                 high_flow     |-> high_flow_of(ratio),
                 pct_change_1h |-> r.pct_change_1h,
                 pct_change_3h |-> r.pct_change_3h,
                 pct_change_6h |-> r.pct_change_6h]]

\* lines 46-61: the rows of the files that exist, north first, each tagged
\* with its region
load_current_data(n, s) ==
    LET tag(f, region) ==
            IF f.exists
            THEN [k \in 1..Len(f.rows) |-> f.rows[k] @@ [region |-> region]]
            ELSE <<>>
    IN  tag(n, "north") \o tag(s, "south")

---------------------------------------------------------------------------
(* the files and what the feeds may write to them                          *)

Absent == [exists |-> FALSE, rows |-> <<>>]

File(rows) == [exists |-> TRUE, rows |-> rows]

Reading(site, ts, flow) ==
    [site_no |-> site, timestamp_utc |-> ts, flow_cfs |-> flow]

Baseline(site, day, p90) ==
    [site_no |-> site, day_of_year |-> day, p90_flow_cfs |-> p90]

\* readings fetched one at a time, at most
MaxSingles == 2

\* whole hours of regular readings fetched, at most
MaxBatches == 1

\* readings every stage accepts: two sites, a tick on day 1 and one on day 2
ValidReadings ==
    {Reading(s, t, Num(f)) : s \in {"A", "B"}, t \in {280, 288},
                             f \in {20, SENTINEL}}

\* readings prepare_current_data rejects: no site, no flow, no timestamp, a
\* timestamp that is no date
RejectedReadings ==
    {Reading(NA, 288, Num(20)), Reading("A", 280, NaN),
     Reading("A", NaT, Num(20)), Reading("A", BadTs, Num(20))}

Readings == ValidReadings \cup RejectedReadings

\* one hour of site A at the 5-minute cadence, ticks 276..287, constant flow
Batch(f) == [i \in 1..WINDOW_1h |-> Reading("A", 275 + i, Num(f))]

BatchFlows == {0, 10}

IsBatchRow(r) == \E f \in BatchFlows : r.flow_cfs = Num(f)

Singles(rows) == Cardinality({i \in 1..Len(rows) : ~IsBatchRow(rows[i])})

Batches(rows) ==
    Cardinality({i \in 1..Len(rows) : IsBatchRow(rows[i])}) \div WINDOW_1h

\* the baseline tables fetch_historical may leave: one entry per key, and
\* one with a duplicated (site_no, day_of_year)
HistTables ==
    { << Baseline("A", 1, Num(15)), Baseline("B", 2, Num(15)) >>,
      << Baseline("A", 2, Num(15)), Baseline("A", 2, Num(1)),
         Baseline("B", 1, Num(0)) >> }

\* an output table left by an earlier run
PriorProcessed ==
    CHOOSE t \in latest_tables(<< Reading("B", 280, Num(20)) >>,
                               << Baseline("B", 1, Num(15)) >>) : TRUE

PriorHfroc ==
    cpr_compare_to_historical(
        cpr_prepare_current_data(cpr_compute_rate_of_change(
            load_current_data(File(<< Reading("B", 280, Num(20)) >>), Absent))),
        << Baseline("B", 1, Num(15)) >>)

NoRun == [prog |-> "none", result |-> "none", df |-> <<>>, df_hist |-> <<>>,
          rerun |-> FALSE]

\* the dashboard before its first callback: no figure, the map page
MapPage == -1

NoPoint == [site_id |-> MapPage, site_no |-> NA, sites |-> {}]

NoApp == [fig |-> <<>>, pathname |-> MapPage, clicked |-> NoPoint,
          shown |-> NoPoint, downloaded |-> NoPoint]

\* update_pipeline.py not running
Idle == [pc |-> "idle", running |-> "", started |-> <<>>, rcs |-> <<>>,
         hist_at_22 |-> "unchecked"]

NoCall == [fn |-> "none", df |-> <<>>, df_hist |-> <<>>]

Init ==
    /\ gauge = Absent
    /\ hist = Absent
    /\ north = Absent
    /\ south = Absent
    /\ \E prior \in BOOLEAN :
          /\ processed = IF prior THEN File(PriorProcessed) ELSE Absent
          /\ hfroc = IF prior THEN File(PriorHfroc) ELSE Absent
    /\ last = NoRun
    /\ args = NoCall
    /\ ret = <<>>
    /\ quicksort \in TiePolicies
    /\ app = NoApp
    /\ pipe = Idle

TotalSingles == Singles(gauge.rows) + Singles(north.rows) + Singles(south.rows)

\* A data directory is fed either by fetch_data.py (gauge_data.csv, read by
\* process_gauge_data.py) or by the regional feeds (north_va.csv and
\* south_va.csv, read by compare_p90_roc.py), not by both.
\* fetch_data.py appends what the feed returned to data/gauge_data.csv
fetch_data ==
    /\ ~north.exists /\ ~south.exists
    /\ TotalSingles < MaxSingles
    /\ \E r \in Readings : gauge' = File(Append(gauge.rows, r))
    /\ UNCHANGED <<hist, processed, north, south, hfroc, last, args, ret,
                   quicksort, app, pipe>>

fetch_data_hour ==
    /\ ~north.exists /\ ~south.exists
    /\ Batches(gauge.rows) < MaxBatches
    /\ \E f \in BatchFlows : gauge' = File(gauge.rows \o Batch(f))
    /\ UNCHANGED <<hist, processed, north, south, hfroc, last, args, ret,
                   quicksort, app, pipe>>

\* fetch_historical.py runs only while the baseline file does not exist
fetch_historical ==
    /\ ~hist.exists
    /\ \E t \in HistTables : hist' = File(t)
    /\ UNCHANGED <<gauge, processed, north, south, hfroc, last, args, ret,
                   quicksort, app, pipe>>

\* the regional feeds of compare_p90_roc.py: each leaves its file, with the
\* reading it returned or with none
fetch_north ==
    /\ ~gauge.exists
    /\ \E new \in {<<>>} \cup {<<r>> : r \in Readings} :
          /\ TotalSingles + Len(new) <= MaxSingles
          /\ north' = File(north.rows \o new)
    /\ UNCHANGED <<gauge, hist, processed, south, hfroc, last, args, ret,
                   quicksort, app, pipe>>

fetch_south ==
    /\ ~gauge.exists
    /\ \E new \in {<<>>} \cup {<<r>> : r \in Readings} :
          /\ TotalSingles + Len(new) <= MaxSingles
          /\ south' = File(south.rows \o new)
    /\ UNCHANGED <<gauge, hist, processed, north, hfroc, last, args, ret,
                   quicksort, app, pipe>>

\* how a run ended and what it had read; rerun: it saved from the very
\* tables the run before it saved from
Ended(prog, result, df, df_hist) ==
    [prog |-> prog, result |-> result, df |-> df, df_hist |-> df_hist,
     rerun |-> /\ result = "saved" /\ last.result = "saved"
               /\ last.prog = prog /\ last.df = df /\ last.df_hist = df_hist]

\* main saving an empty table when an input file is missing
main_saves_empty_when_missing ==
    /\ IF ~gauge.exists \/ ~hist.exists
       THEN /\ last' = Ended("process_gauge_data", "missing", <<>>, <<>>)
            /\ processed' = File(<<>>)
       ELSE IF to_datetime_raises(gauge.rows)
       THEN /\ last' = Ended("process_gauge_data", "raised", gauge.rows, hist.rows)
            /\ UNCHANGED processed
       ELSE /\ processed' =
                  File(latest_table(quicksort, gauge.rows, hist.rows))
            /\ last' = Ended("process_gauge_data", "saved", gauge.rows, hist.rows)
    /\ UNCHANGED <<gauge, hist, north, south, hfroc, args, ret,
                   quicksort, app, pipe>>

\* main sorting with a quicksort that orders equal keys anew on every run
main_any_tie_order ==
    /\ IF ~gauge.exists \/ ~hist.exists
       THEN /\ last' = Ended("process_gauge_data", "missing", <<>>, <<>>)
            /\ UNCHANGED processed
       ELSE IF to_datetime_raises(gauge.rows)
       THEN /\ last' = Ended("process_gauge_data", "raised", gauge.rows, hist.rows)
            /\ UNCHANGED processed
       ELSE /\ \E df_latest \in latest_tables(gauge.rows, hist.rows) :
                  processed' = File(df_latest)
            /\ last' = Ended("process_gauge_data", "saved", gauge.rows, hist.rows)
    /\ UNCHANGED <<gauge, hist, north, south, hfroc, args, ret,
                   quicksort, app, pipe>>

\* what process_gauge_data.main does to the output table, lines 79-104
main_reads_and_saves ==
    IF ~gauge.exists \/ ~hist.exists
       THEN \* lines 80-82
            /\ last' = Ended("process_gauge_data", "missing", <<>>, <<>>)
            /\ UNCHANGED processed
       ELSE IF to_datetime_raises(gauge.rows)
       THEN \* line 17 raises out of main
            /\ last' = Ended("process_gauge_data", "raised", gauge.rows, hist.rows)
            /\ UNCHANGED processed
       ELSE \* lines 87-103
            /\ processed' =
                  File(latest_table(quicksort, gauge.rows, hist.rows))
            /\ last' = Ended("process_gauge_data", "saved", gauge.rows, hist.rows)

\* process_gauge_data.py run on its own
process_gauge_data_main ==
    /\ main_reads_and_saves
    /\ UNCHANGED <<gauge, hist, north, south, hfroc, args, ret,
                   quicksort, app, pipe>>

\* compare_p90_roc.main, lines 109-143
compare_p90_roc_main ==
    LET df_current == load_current_data(north, south)
    IN
    /\ IF df_current = <<>>
       THEN \* lines 111-113: no file, or no row in the files there are
            /\ last' = Ended("compare_p90_roc", "missing", <<>>, <<>>)
            /\ UNCHANGED hfroc
       ELSE IF to_datetime_raises(df_current)
       THEN \* line 32 raises out of main
            /\ last' = Ended("compare_p90_roc", "raised", df_current, <<>>)
            /\ UNCHANGED hfroc
       ELSE IF ~hist.exists
       THEN \* lines 121-123
            /\ last' = Ended("compare_p90_roc", "missing", df_current, <<>>)
            /\ UNCHANGED hfroc
       ELSE \* lines 125-132
            /\ hfroc' = File(cpr_compare_to_historical(
                            cpr_prepare_current_data(
                                cpr_compute_rate_of_change(df_current)),
                            hist.rows))
            /\ last' = Ended("compare_p90_roc", "saved", df_current, hist.rows)
    /\ UNCHANGED <<gauge, hist, processed, north, south, args, ret,
                   quicksort, app, pipe>>

Next ==
    \/ fetch_data
    \/ fetch_data_hour
    \/ fetch_historical
    \/ fetch_north
    \/ fetch_south
    \/ process_gauge_data_main
    \/ compare_p90_roc_main

Spec == Init /\ [][Next]_vars

---------------------------------------------------------------------------
(* direct calls of compute_rate_of_change: a long history of two sites     *)

\* rows of the history handed to compute_rate_of_change
MaxReadings == 92

FilesUntouched ==
    UNCHANGED <<gauge, hist, processed, north, south, hfroc, last,
                quicksort, app, pipe>>

NoFiles ==
    /\ gauge = Absent /\ hist = Absent /\ processed = Absent
    /\ north = Absent /\ south = Absent /\ hfroc = Absent
    /\ last = NoRun
    /\ quicksort = "keeps" /\ app = NoApp /\ pipe = Idle

\* reading i of the history: every fifth one is of site B, the others of
\* site A, at consecutive ticks; the flows cycle through 10, 11, 12 but for
\* reading p, whose flow is f
HistoryRow(i, p, f) ==
    Reading(IF i % 5 = 0 THEN "B" ELSE "A", 100 + i,
            IF i = p THEN f ELSE Num(10 + (i % 3))) @@ [region |-> "north"]

\* the history in file order: oldest first, or newest first
History(n, p, f, newestFirst) ==
    [k \in 1..n |-> HistoryRow(IF newestFirst THEN n + 1 - k ELSE k, p, f)]

InitRoc ==
    /\ NoFiles
    /\ \E p \in 0..MaxReadings, f \in {NaN, Num(0), Num(20)},
          newestFirst \in BOOLEAN :
          args = [fn |-> "none",
                  df |-> History(MaxReadings, p, f, newestFirst),
                  df_hist |-> <<>>]
    /\ ret = <<>>

call_compute_rate_of_change ==
    /\ ~to_datetime_raises(args.df)
    /\ args' = [args EXCEPT !.fn = "process_gauge_data.compute_rate_of_change"]
    /\ ret' = compute_rate_of_change(args.df)
    /\ FilesUntouched

call_cpr_compute_rate_of_change ==
    /\ ~to_datetime_raises(args.df)
    /\ args' = [args EXCEPT !.fn = "compare_p90_roc.compute_rate_of_change"]
    /\ ret' = cpr_compute_rate_of_change(args.df)
    /\ FilesUntouched

NextRoc ==
    \/ call_compute_rate_of_change
    \/ call_cpr_compute_rate_of_change

SpecRoc == InitRoc /\ [][NextRoc]_vars

---------------------------------------------------------------------------
(* direct calls of compare_to_historical                                   *)

\* rows of the reading table and of the baseline table of a call, at most
MaxCurRows == 2
MaxHistRows == 2

\* a reading as prepare_current_data returns it
Prepared(site, ts, flow) ==
    Reading(site, ts, flow) @@
    [region |-> "north", day_of_year |-> dayofyear(ts),
     pct_change_1h |-> NaN, pct_change_3h |-> NaN, pct_change_6h |-> NaN]

CurRows ==
    {Prepared("A", 280, f) : f \in {NaN, Num(SENTINEL), Num(0), Num(20)}}

BaselineRows ==
    {Baseline("A", d, p) : d \in {1, 2},
                           p \in {NaN, Num(0), Num(-5), Num(1), Num(15)}}

SeqsUpTo(S, n) == UNION {[1..k -> S] : k \in 0..n}

InitCmp ==
    /\ NoFiles
    /\ \E df \in SeqsUpTo(CurRows, MaxCurRows),
          df_hist \in SeqsUpTo(BaselineRows, MaxHistRows) :
          args = [fn |-> "none", df |-> df, df_hist |-> df_hist]
    /\ ret = <<>>

call_compare_to_historical ==
    /\ args' = [args EXCEPT !.fn = "process_gauge_data.compare_to_historical"]
    /\ ret' = compare_to_historical(args.df, args.df_hist)
    /\ FilesUntouched

call_cpr_compare_to_historical ==
    /\ args' = [args EXCEPT !.fn = "compare_p90_roc.compare_to_historical"]
    /\ ret' = cpr_compare_to_historical(args.df, args.df_hist)
    /\ FilesUntouched

NextCmp ==
    \/ call_compare_to_historical
    \/ call_cpr_compare_to_historical

SpecCmp == InitCmp /\ [][NextCmp]_vars

---------------------------------------------------------------------------
(* properties of compare_to_historical (SpecCmp)                           *)

Called(fn) == args.fn = fn

\* C3 (clamping): in every row compare_to_historical of
\* process_gauge_data.py returns, percentile is a real number (never
\* missing, never infinite) with 0 <= percentile <= 500, and it is 0
\* whenever ratio is missing.
C3_PercentileClamped ==
    Called("process_gauge_data.compare_to_historical") =>
        \A k \in 1..Len(ret) :
            /\ ret[k].percentile.d > 0
            /\ ret[k].percentile.n >= 0
            /\ ret[k].percentile.n <= 500 * ret[k].percentile.d
            /\ (ret[k].ratio = NaN => ret[k].percentile = Num(0))

\* a call whose result has a row capped at 500, a row of negative flow
\* (a negative ratio, clamped to 0) and a row whose ratio is missing
C3_Witness ==
    /\ Called("process_gauge_data.compare_to_historical")
    /\ \E k \in 1..Len(ret) :
          /\ ret[k].percentile = Num(500)
          /\ ret[k].ratio.d > 0 /\ ret[k].ratio.n > 5 * ret[k].ratio.d
    /\ \E k \in 1..Len(ret) :
          /\ ret[k].flow_cfs = Num(SENTINEL)
          /\ ret[k].ratio.d > 0 /\ ret[k].ratio.n < 0
          /\ ret[k].percentile = Num(0)
    /\ \E k \in 1..Len(ret) : ret[k].ratio = NaN /\ ret[k].percentile = Num(0)

\* the baseline cell is missing, zero or negative
Unusable(p90) == p90.d = 0 \/ p90.n <= 0

\* the baseline entries of the call that match result row r
EntriesFor(r) ==
    {j \in 1..Len(args.df_hist) :
        /\ args.df_hist[j].site_no = r.site_no
        /\ args.df_hist[j].day_of_year = dayofyear(r.timestamp_utc)}

\* C4 (division safety): in the result of either compare_to_historical, a
\* row whose baseline p90 is missing, zero or negative, or that no baseline
\* entry matches, has ratio missing and high_flow false; high_flow is true
\* only with ratio present and ratio >= 1.
C4_DivisionSafe ==
    ~Called("none") =>
        \A k \in 1..Len(ret) :
            /\ (\/ Unusable(ret[k].p90_flow_cfs)
                \/ \A j \in EntriesFor(ret[k]) :
                       Unusable(args.df_hist[j].p90_flow_cfs))
               => ret[k].ratio = NaN /\ ~ret[k].high_flow
            /\ ret[k].high_flow =>
                  ret[k].ratio.d > 0 /\ ret[k].ratio.n >= ret[k].ratio.d

---------------------------------------------------------------------------
(* properties of compute_rate_of_change (SpecRoc)                          *)

SiteRows(df, site) == SelectSeq(df, LAMBDA r : r.site_no = site)

PctChange(r, w) ==
    CASE w = 12 -> r.pct_change_1h
      [] w = 36 -> r.pct_change_3h
      [] w = 72 -> r.pct_change_6h

\* (x - y) / y * 100 for whole flows x, y
PercentChange(x, y) == Frac((x.n - y.n) * 100, y.n)

\* the returned rows of a site are its readings, in timestamp order
InTimestampOrder(g, site) ==
    /\ Len(g) = Len(SiteRows(args.df, site))
    /\ \A i \in 1..(Len(g) - 1) : g[i].timestamp_utc <= g[i + 1].timestamp_utc

\* C5 as claimed (windowing boundary): for each window w in {12, 36, 72} and
\* each site, with i the (0-based) position of a reading in the site's
\* timestamp-sorted sequence, pct_change_<w> is missing for i < w and for
\* every i >= w a real number equal to (flow[i] - flow[i-w]) / flow[i-w] * 100.
C5_Claimed ==
    ~Called("none") =>
        \A site \in {"A", "B"}, w \in {12, 36, 72} :
            LET g == SiteRows(ret, site)
            IN  /\ InTimestampOrder(g, site)
                /\ \A i \in 1..Len(g) :
                      IF i - 1 < w
                      THEN PctChange(g[i], w) = NaN
                      ELSE /\ PctChange(g[i], w).d > 0
                           /\ PctChange(g[i], w) =
                                  PercentChange(g[i].flow_cfs, g[i - w].flow_cfs)

\* C5 as amended: pct_change_<w> is missing for i < w; for i >= w it is the
\* real number (flow[i] - flow[i-w]) / flow[i-w] * 100 when flow[i] and
\* flow[i-w] are present and flow[i-w] is not zero.
C5_WindowBoundary ==
    ~Called("none") =>
        \A site \in {"A", "B"}, w \in {12, 36, 72} :
            LET g == SiteRows(ret, site)
            IN  /\ InTimestampOrder(g, site)
                /\ \A i \in 1..Len(g) :
                      IF i - 1 < w
                      THEN PctChange(g[i], w) = NaN
                      ELSE (/\ g[i].flow_cfs.d > 0
                            /\ g[i - w].flow_cfs.d > 0
                            /\ g[i - w].flow_cfs.n # 0)
                           => /\ PctChange(g[i], w).d > 0
                              /\ PctChange(g[i], w) =
                                  PercentChange(g[i].flow_cfs, g[i - w].flow_cfs)

\* a history given newest first, whose site A has more than 72 readings:
\* the last one has a real, non-zero pct_change for each of the windows,
\* and reading 71 (0-based) has the 1h and 3h ones, not the 6h one.
C5_Witness ==
    /\ ~Called("none")
    /\ args.df[1].timestamp_utc > args.df[2].timestamp_utc
    /\ LET g == SiteRows(ret, "A")
       IN  /\ Len(g) > 73
           /\ \A w \in {12, 36, 72} :
                  PctChange(g[74], w).d > 0 /\ PctChange(g[74], w).n # 0
           /\ g[72].pct_change_3h.d > 0
           /\ g[72].pct_change_6h = NaN

---------------------------------------------------------------------------
(* properties of the runs (Spec)                                           *)

\* the last run was process_gauge_data.main and it saved the output table
Saved == last.prog = "process_gauge_data" /\ last.result = "saved"

\* a reading with a site, a timestamp that parses and a flow
Accepted(r) ==
    /\ r.site_no # NA
    /\ r.timestamp_utc # NaT /\ r.timestamp_utc # BadTs
    /\ r.flow_cfs # NaN

AcceptedOf(df, site) ==
    {i \in 1..Len(df) : Accepted(df[i]) /\ df[i].site_no = site}

SitesOf(df) == {df[i].site_no : i \in 1..Len(df)}

\* C1 (uniqueness): after process_gauge_data.main has saved, the output
\* table holds exactly one Snapshot for every site_id with an accepted
\* reading and none for any other: its site_no values are pairwise
\* distinct, and they are the sites of the accepted readings.
C1_OneSnapshotPerSite ==
    Saved =>
        /\ \A i, j \in 1..Len(processed.rows) :
               i # j => processed.rows[i].site_no # processed.rows[j].site_no
        /\ SitesOf(processed.rows) =
               {s \in SitesOf(last.df) : AcceptedOf(last.df, s) # {}}

\* a saved run over readings of two sites, one of which matches a
\* duplicated baseline entry
C1_Witness ==
    /\ Saved
    /\ Len(processed.rows) = 2
    /\ \E i \in 1..Len(last.df) :
          Len(hist_matches(last.df[i] @@
                  [day_of_year |-> dayofyear(last.df[i].timestamp_utc)],
                  last.df_hist)) > 1

\* C2 (latest-wins): the Snapshot of a site carries the timestamp and the
\* flow of an accepted reading of that site with the maximum timestamp,
\* whatever the order of the rows in the input.
C2_LatestWins ==
    Saved =>
        \A k \in 1..Len(processed.rows) :
            LET r   == processed.rows[k]
                own == AcceptedOf(last.df, r.site_no)
            IN  /\ \A i \in own : last.df[i].timestamp_utc <= r.timestamp_utc
                /\ \E i \in own :
                       /\ last.df[i].timestamp_utc = r.timestamp_utc
                       /\ last.df[i].flow_cfs = r.flow_cfs

\* two readings of site A, the later one first in the file: the Snapshot
\* has the later one's flow
C2_Witness ==
    /\ Saved
    /\ last.df = << Reading("A", 288, Num(20)), Reading("A", 280, Num(SENTINEL)) >>
    /\ Len(processed.rows) = 1
    /\ processed.rows[1].flow_cfs = Num(20)

Infinite(x) == x.d = 0 /\ x.n # 0

\* C6 (undefined arithmetic resolves to missing): no pct_change_*, ratio or
\* percentile cell of the saved output table holds +infinity or -infinity
\* (a pct_change whose flow[i-window] is zero is the missing marker).
C6_NoInfinityInOutput ==
    Saved =>
        \A k \in 1..Len(processed.rows) :
            LET r == processed.rows[k]
            IN  /\ ~Infinite(r.pct_change_1h)
                /\ ~Infinite(r.pct_change_3h)
                /\ ~Infinite(r.pct_change_6h)
                /\ ~Infinite(r.ratio)
                /\ ~Infinite(r.percentile)

\* the table with every flow of -9999 turned into the missing marker
SentinelAsMissing(df) ==
    [k \in 1..Len(df) |->
        IF df[k].flow_cfs = Num(SENTINEL)
        THEN [df[k] EXCEPT !.flow_cfs = NaN] ELSE df[k]] \o <<>>

\* C7 (sentinel handling): a flow of -9999 is treated as missing before any
\* arithmetic: the saved output is the output of the same run over the
\* readings with every -9999 replaced by the missing marker (so no
\* Snapshot has flow -9999, and no ratio, percentile or pct_change is
\* computed from it).
C7_SentinelIsMissing ==
    Saved =>
        processed.rows \in latest_tables(SentinelAsMissing(last.df), last.df_hist)

NoSource == ~north.exists /\ ~south.exists

\* C8 as amended (missing source aborts without writing): a run of
\* process_gauge_data.main without gauge_data.csv, and a run of
\* compare_p90_roc.main with neither regional file, leave the output file
\* as it was before the run.
C8_MissingSourceWritesNothing ==
    [][ /\ (~gauge.exists /\ process_gauge_data_main) => processed' = processed
        /\ (NoSource /\ compare_p90_roc_main) => hfroc' = hfroc ]_vars

\* C8 as claimed: as above, and no run replaces a prior output that holds
\* Snapshots with an empty table.
C8_Claimed ==
    [][ /\ (~gauge.exists /\ process_gauge_data_main) => processed' = processed
        /\ (NoSource /\ compare_p90_roc_main) => hfroc' = hfroc
        /\ processed.rows # <<>> => processed'.rows # <<>>
        /\ hfroc.rows # <<>> => hfroc'.rows # <<>> ]_vars

\* process_gauge_data.main has run without gauge_data.csv and the output
\* table of an earlier run is still there
C8_Witness ==
    /\ last.prog = "process_gauge_data" /\ last.result = "missing"
    /\ ~gauge.exists /\ hist.exists
    /\ processed = File(PriorProcessed)

\* C9 (per-row rejection never aborts the run): no run ends in an
\* exception: a run that finds its input files ends having saved its
\* output, whatever rows the readings hold.
C9_NoRunRaises == last.result # "raised"

\* the table without the readings that have no site, no timestamp that
\* parses, or no flow
WithoutRejected(df) == SelectSeq(df, Accepted)

\* C10 (rejected readings are removed before any computation): the saved
\* output is the output of the same run over the readings with the
\* rejected ones deleted; a rejected reading takes no place in a lookback
\* window.
C10_RejectedRemovedFirst ==
    Saved =>
        processed.rows \in latest_tables(WithoutRejected(last.df), last.df_hist)

---------------------------------------------------------------------------
(* the left join of compare_to_historical (SpecCmp)                        *)

CompareCalled ==
    \/ Called("process_gauge_data.compare_to_historical")
    \/ Called("compare_p90_roc.compare_to_historical")

\* row o of a result is reading r of the call: same site, timestamp, flow
SameReading(o, r) ==
    /\ o.site_no = r.site_no
    /\ o.timestamp_utc = r.timestamp_utc
    /\ o.flow_cfs = r.flow_cfs

Copies(df, r) == Cardinality({i \in 1..Len(df) : SameReading(df[i], r)})

UniqueKeys(df_hist) ==
    \A i, j \in 1..Len(df_hist) :
        (/\ df_hist[i].site_no = df_hist[j].site_no
         /\ df_hist[i].day_of_year = df_hist[j].day_of_year) => i = j

\* C11 (left-join preservation): after a call of compare_to_historical (of
\* either file) every reading of df_cur appears in the result, at least as
\* many times as in df_cur; a reading with no baseline entry for its
\* (site_no, day_of_year) has a missing p90_flow_cfs in each of its rows;
\* and when the baseline has at most one entry per (site_no, day_of_year)
\* the result has exactly one row per reading, in the order of df_cur.
C11_LeftJoinPreserves ==
    CompareCalled =>
        /\ \A k \in 1..Len(args.df) :
              /\ Copies(ret, args.df[k]) >= Copies(args.df, args.df[k])
              /\ hist_matches(args.df[k], args.df_hist) = <<>> =>
                    \A j \in 1..Len(ret) :
                        SameReading(ret[j], args.df[k]) =>
                            isna(ret[j].p90_flow_cfs)
        /\ UniqueKeys(args.df_hist) =>
              /\ Len(ret) = Len(args.df)
              /\ \A k \in 1..Len(ret) : SameReading(ret[k], args.df[k])

\* a call with two different readings and a one-entry-per-key baseline that
\* has no entry for their day
C11_Witness ==
    /\ CompareCalled
    /\ Len(args.df) = 2 /\ args.df[1] # args.df[2]
    /\ args.df_hist # <<>> /\ UniqueKeys(args.df_hist)
    /\ hist_matches(args.df[1], args.df_hist) = <<>>
    /\ Len(ret) = 2 /\ isna(ret[1].p90_flow_cfs)

---------------------------------------------------------------------------
(* repeated runs (Spec)                                                    *)

\* readings i and j of df are accepted and share site and timestamp, no
\* accepted reading of the site is later, and their flows differ
TiedLatest(df, i, j) ==
    /\ i # j /\ Accepted(df[i]) /\ Accepted(df[j])
    /\ df[i].site_no = df[j].site_no
    /\ df[i].timestamp_utc = df[j].timestamp_utc
    /\ df[i].flow_cfs # df[j].flow_cfs
    /\ \A k \in AcceptedOf(df, df[i].site_no) :
           df[k].timestamp_utc <= df[i].timestamp_utc

---------------------------------------------------------------------------
(* app.py: the dashboard over the output table of process_gauge_data.py    *)

\* the site_no values of a table
TableSites(df) == {df[i].site_no : i \in 1..Len(df)}

\* build_map, lines 14-19: the rows with a flow >= 0 become the points of
\* the figure, each carrying site_id = its row label in the table read
\* (0-based)
build_map(df) ==
    LET kept == SelectSeq([k \in 1..Len(df) |-> k],
                    LAMBDA k : FGe(df[k].flow_cfs, Num(0)))
    IN  [i \in 1..Len(kept) |->
            [site_id |-> kept[i] - 1, site_no |-> df[kept[i]].site_no,
             sites |-> TableSites(df)]]

\* df_main.loc[site_id]["site_no"], lines 231 and 547: KeyError when the
\* table read has no row of that label
loc_site_no(df_main, site_id) ==
    [site_id |-> site_id,
     site_no |-> IF site_id + 1 \in 1..Len(df_main)
                 THEN df_main[site_id + 1].site_no ELSE "KeyError",
     sites |-> TableSites(df_main)]

AppOnly ==
    UNCHANGED <<gauge, hist, processed, north, south, hfroc, last, args, ret,
                quicksort, pipe>>

\* update_map, lines 492-498 (and main_map_layout, lines 101-102): the map
\* is drawn from the output table as it is now
update_map ==
    /\ processed.exists
    /\ app' = [app EXCEPT !.fig = build_map(processed.rows)]
    /\ AppOnly

\* go_to_gauge, lines 509-513: a click on a point of the figure shown
go_to_gauge ==
    /\ \E i \in 1..Len(app.fig) :
          app' = [app EXCEPT !.pathname = app.fig[i].site_id,
                             !.clicked = app.fig[i]]
    /\ AppOnly

\* display_page, lines 222-232, for a pathname /gauge/<site_id>
display_page ==
    /\ app.pathname # MapPage
    /\ processed.exists
    /\ app' = [app EXCEPT !.shown = loc_site_no(processed.rows, app.pathname)]
    /\ AppOnly

\* download_full_csv, lines 543-559 (download_graph, lines 523-534, reads
\* the table the same way)
download_full_csv ==
    /\ app.pathname # MapPage
    /\ app.shown.site_id = app.pathname
    /\ processed.exists
    /\ app' = [app EXCEPT
                  !.downloaded = loc_site_no(processed.rows, app.pathname)]
    /\ AppOnly

\* the dashboard is started on a data directory the pipeline has filled:
\* one reading of site B and an hour of site A
InitApp ==
    /\ gauge = File(<< Reading("B", 280, Num(20)) >> \o Batch(10))
    /\ hist \in {File(t) : t \in HistTables}
    /\ processed = Absent
    /\ north = Absent /\ south = Absent /\ hfroc = Absent
    /\ last = NoRun /\ args = NoCall /\ ret = <<>>
    /\ quicksort \in TiePolicies
    /\ app = NoApp
    /\ pipe = Idle

NextApp ==
    \/ fetch_data
    \/ process_gauge_data_main
    \/ update_map
    \/ go_to_gauge
    \/ display_page
    \/ download_full_csv

SpecApp == InitApp /\ [][NextApp]_vars

\* C13 (stable row index): a site_id captured from the map resolves, when
\* the gauge page or a download callback re-reads the output table, to the
\* site_no it had on the map, whenever the table read holds the same set of
\* sites as the table the map was built from.
C13_IndexResolvesToSameSite ==
    /\ (/\ app.shown.site_id = app.clicked.site_id
        /\ app.shown.sites = app.clicked.sites)
            => app.shown.site_no = app.clicked.site_no
    /\ (/\ app.downloaded.site_id = app.clicked.site_id
        /\ app.downloaded.sites = app.clicked.sites)
            => app.downloaded.site_no = app.clicked.site_no

---------------------------------------------------------------------------
(* the reducer's tie-break (Spec)                                          *)

\* the accepted readings of df that have row r's site and timestamp
TiedWith(df, r) ==
    {i \in AcceptedOf(df, r.site_no) : df[i].timestamp_utc = r.timestamp_utc}

Last(S) == CHOOSE i \in S : \A j \in S : j <= i

\* C14 (tie-break): when several readings of a site share its maximum
\* timestamp, the site's Snapshot is the one of them that comes last in
\* the input.
C14_LastInInputOrderWins ==
    Saved =>
        \A k \in 1..Len(processed.rows) :
            LET r == processed.rows[k]
            IN  r.flow_cfs = last.df[Last(TiedWith(last.df, r))].flow_cfs

---------------------------------------------------------------------------
(* update_pipeline.py                                                      *)

\* run stopping main when the script failed
after_exit_checked(script, returncode) ==
    IF returncode # 0 THEN "done"
    ELSE CASE script = "fetch_data.py"         -> "line22"
           [] script = "fetch_historical.py"   -> "line28"
           [] script = "process_gauge_data.py" -> "done"

\* run, lines 12-15: the return code is only printed; main goes on to the
\* line after the call whatever the code is
after_exit(script, returncode) ==
    CASE script = "fetch_data.py"         -> "line22"
      [] script = "fetch_historical.py"   -> "line28"
      [] script = "process_gauge_data.py" -> "done"

\* line 11: subprocess.run starts the script and waits for it to exit
Started(p, script) ==
    [p EXCEPT !.pc = "waiting", !.running = script,
              !.started = Append(@, script)]

\* lines 11-15: the script has exited with returncode
Exited(returncode) ==
    [pipe EXCEPT !.pc = after_exit(pipe.running, returncode),
                 !.running = "", !.rcs = Append(@, returncode)]

Waiting(script) == pipe.pc = "waiting" /\ pipe.running = script

\* python update_pipeline.py: main, line 19
update_pipeline_main ==
    /\ pipe.pc \in {"idle", "done"}
    /\ pipe' = Started(Idle, "fetch_data.py")
    /\ UNCHANGED <<gauge, hist, processed, north, south, hfroc, last, args,
                   ret, quicksort, app>>

\* fetch_data.py exits: with what the feed returned appended to
\* gauge_data.csv, or with an error and the file as it was
fetch_data_exits ==
    /\ Waiting("fetch_data.py")
    /\ \/ /\ \E new \in {<<>>} \cup {<<r>> : r \in Readings} :
                /\ TotalSingles + Len(new) <= MaxSingles
                /\ gauge' = File(gauge.rows \o new)
          /\ pipe' = Exited(0)
       \/ /\ UNCHANGED gauge
          /\ pipe' = Exited(1)
    /\ UNCHANGED <<hist, processed, north, south, hfroc, last, args, ret,
                   quicksort, app>>

\* main, lines 22-25
check_historical ==
    /\ pipe.pc = "line22"
    /\ pipe' = IF ~hist.exists
               THEN Started([pipe EXCEPT !.hist_at_22 = "missing"],
                            "fetch_historical.py")
               ELSE [pipe EXCEPT !.pc = "line28", !.hist_at_22 = "exists"]
    /\ UNCHANGED <<gauge, hist, processed, north, south, hfroc, last, args,
                   ret, quicksort, app>>

\* fetch_historical.py exits: with the baseline file written, or with an
\* error and no file
fetch_historical_exits ==
    /\ Waiting("fetch_historical.py")
    /\ \/ /\ \E t \in HistTables : hist' = File(t)
          /\ pipe' = Exited(0)
       \/ /\ UNCHANGED hist
          /\ pipe' = Exited(1)
    /\ UNCHANGED <<gauge, processed, north, south, hfroc, last, args, ret,
                   quicksort, app>>

\* main, line 28
run_process_gauge_data ==
    /\ pipe.pc = "line28"
    /\ pipe' = Started(pipe, "process_gauge_data.py")
    /\ UNCHANGED <<gauge, hist, processed, north, south, hfroc, last, args,
                   ret, quicksort, app>>

\* process_gauge_data.py exits: its main has returned (code 0) or raised
process_gauge_data_exits ==
    /\ Waiting("process_gauge_data.py")
    /\ main_reads_and_saves
    /\ pipe' = Exited(IF last'.result = "raised" THEN 1 ELSE 0)
    /\ UNCHANGED <<gauge, hist, north, south, hfroc, args, ret,
                   quicksort, app>>

InitPipe ==
    /\ gauge = Absent
    /\ hist \in {Absent} \cup {File(t) : t \in HistTables}
    /\ processed = Absent
    /\ north = Absent /\ south = Absent /\ hfroc = Absent
    /\ last = NoRun /\ args = NoCall /\ ret = <<>>
    /\ quicksort \in TiePolicies
    /\ app = NoApp
    /\ pipe = Idle

\* the pipeline, and fetch_historical.py run by hand beside it
NextPipe ==
    \/ update_pipeline_main
    \/ fetch_data_exits
    \/ check_historical
    \/ fetch_historical_exits
    \/ run_process_gauge_data
    \/ process_gauge_data_exits
    \/ fetch_historical

SpecPipe == InitPipe /\ [][NextPipe]_vars

\* the scripts an invocation starts, given what line 22 found
Stages(hist_at_22) ==
    <<"fetch_data.py">>
    \o (IF hist_at_22 = "missing" THEN <<"fetch_historical.py">> ELSE <<>>)
    \o <<"process_gauge_data.py">>

IsPrefix(s, t) == Len(s) <= Len(t) /\ s = SubSeq(t, 1, Len(s))

\* C15 (stage ordering): in every invocation of update_pipeline.main the
\* scripts started so far are a prefix of fetch_data.py, then
\* fetch_historical.py exactly when historical_p90.csv was missing at line
\* 22, then process_gauge_data.py; a script is started only when every
\* script started before it has exited; and an invocation that has ended
\* has started all of them, process_gauge_data.py exactly once, whatever
\* the return codes.
C15_StagesInOrder ==
    /\ IF pipe.hist_at_22 = "unchecked"
       THEN IsPrefix(pipe.started, <<"fetch_data.py">>)
       ELSE /\ IsPrefix(pipe.started, Stages(pipe.hist_at_22))
            /\ Len(pipe.started) >= Len(Stages(pipe.hist_at_22)) - 1
    /\ Len(pipe.started) = Len(pipe.rcs) + (IF pipe.running = "" THEN 0 ELSE 1)
    /\ pipe.running # "" => pipe.running = pipe.started[Len(pipe.started)]
    /\ pipe.pc = "done" =>
          /\ pipe.started = Stages(pipe.hist_at_22)
          /\ Cardinality({i \in 1..Len(pipe.started) :
                  pipe.started[i] = "process_gauge_data.py"}) = 1

\* an invocation has ended after fetch_data.py and fetch_historical.py both
\* failed, and process_gauge_data.py was run all the same
C15_Witness ==
    /\ pipe.pc = "done"
    /\ pipe.started = <<"fetch_data.py", "fetch_historical.py",
                        "process_gauge_data.py">>
    /\ pipe.rcs[1] # 0 /\ pipe.rcs[2] # 0

===========================================================================
